---- MODULE Spec2Model ----
(***************************************************************************)
(* A model of the OpenGL "hello world" examples: the combined-file shader   *)
(* splitter ParseShader, the compile/link sequences of the examples and of  *)
(* the Shader wrapper, and the main functions around them.                  *)
(*                                                                          *)
(* Text.  A line of a shader file is a sequence of whitespace-separated     *)
(* words; std::string::find(w) != npos is "w is one of the words".  The     *)
(* words "#shader", "vertex" and "fragment" are the three patterns the      *)
(* splitter searches for, every other word contains none of them.  A text   *)
(* buffer is a sequence of words and "\n" characters.                       *)
(***************************************************************************)
EXTENDS Integers, Sequences, FiniteSets, TLC

VARIABLES
    fileOpen,      \* ParseShader: stream.is_open() of std::ifstream stream(filePath)
    file,          \* ParseShader: the lines of the file at filePath
    pos,           \* ParseShader: number of lines std::getline has consumed
    type,          \* ParseShader: ShaderType type
    ss,            \* ParseShader: std::stringstream ss[2]
    ppc,           \* ParseShader: position in the function
    shaderSource,  \* main (ex02): ShaderProgramSource shaderSource
    cerr,          \* std::cerr: the diagnostics written so far
    prog,          \* which example's main is running
    pc,            \* main: index of the next statement of Script(prog)
    exit,          \* main: [done, code], the process exit
    glfw,          \* GLFW: library, window, context, loader and callback state
    gl,            \* GL context state: viewport, program in use, bound VAO, objects
    shaders,       \* GL shader objects, one per stage
    program,       \* GL program object
    code,          \* the source strings handed to glShaderSource, per stage
    loc,           \* the uniform location last looked up
    frame,         \* what the frame in progress has done so far
    locAge,        \* how old loc is: looked up since the last draw call, or earlier
    useCalled      \* glUseProgram was called in the frame in progress

parseVars == <<fileOpen, file, pos, type, ss, ppc>>
mainVars == <<prog, pc, exit, glfw, gl, shaders, program, code, loc, frame,
              locAge, useCalled>>
vars == <<fileOpen, file, pos, type, ss, ppc, shaderSource, cerr,
          prog, pc, exit, glfw, gl, shaders, program, code, loc, frame,
          locAge, useCalled>>

-----------------------------------------------------------------------------
(* Bounds *)

MaxLines == 4          \* lines per shader file, ParseShader alone
MaxMainLines == 2      \* lines of Basic.shader when a whole main runs

-----------------------------------------------------------------------------
(* The statements of the programs.                                          *)
(*                                                                          *)
(* A main function is the sequence of its calls, in source order; pc is the *)
(* index of the next one.  The failure branch of an initialisation call     *)
(* (print, clean up, return -1) belongs to the call's action.  Calls that   *)
(* only set hints or compute a local value (glfwWindowHint, glClearColor,   *)
(* glfwGetTime, sin) are left out.                                          *)

Call(o) == [op |-> o, a |-> "", m |-> ""]
CallA(o, x) == [op |-> o, a |-> x, m |-> ""]
CallM(o, x, msg) == [op |-> o, a |-> x, m |-> msg]

Stages == {"vertex", "fragment"}

\* Faulty variant of HelloWorld_GL's main: the triangle is drawn before the
\* frame is cleared.
HelloMain_DrawBeforeClear ==
    << Call("glfwInit"),
       Call("glfwCreateWindow"),
       Call("glfwMakeContextCurrent"),
       Call("glfwSetFramebufferSizeCallback"),
       Call("gladLoadGLLoader"),
       Call("glViewport"),
       CallA("glGenVertexArrays", "VAO"),
       CallA("glBindVertexArray", "VAO"),
       CallA("glGenBuffers", "VBO"),
       CallA("glBufferData", "VBO"),
       CallA("glBindVertexArray", "none"),
       CallA("glCreateShader", "vertex"),
       CallA("glShaderSource", "vertex"),
       CallA("glCompileShader", "vertex"),
       CallM("CheckCompileStatus", "vertex", "Vertex shader error"),
       CallA("glCreateShader", "fragment"),
       CallA("glShaderSource", "fragment"),
       CallA("glCompileShader", "fragment"),
       Call("glCreateProgram"),
       CallA("glAttachShader", "vertex"),
       CallA("glAttachShader", "fragment"),
       Call("glLinkProgram"),
       CallA("glDeleteShader", "vertex"),
       CallA("glDeleteShader", "fragment"),
       Call("while"),
       Call("processInput"),
       CallA("glDrawArrays", "0"),
       Call("glClear"),
       Call("glUseProgram"),
       CallA("glBindVertexArray", "VAO"),
       Call("glfwSwapBuffers"),
       Call("glfwPollEvents"),
       Call("endwhile"),
       Call("glfwTerminate"),
       Call("return 0") >>

\* HelloWorld_GL.cpp, main, lines 37-166.
HelloMain ==
    << Call("glfwInit"),                                    \* 39-42
       Call("glfwCreateWindow"),                            \* 52-57
       Call("glfwMakeContextCurrent"),                      \* 60
       Call("glfwSetFramebufferSizeCallback"),              \* 63
       Call("gladLoadGLLoader"),                            \* 67-70
       Call("glViewport"),                                  \* 73
       CallA("glGenVertexArrays", "VAO"),                   \* 88-89
       CallA("glBindVertexArray", "VAO"),                   \* 90
       CallA("glGenBuffers", "VBO"),                        \* 93-94
       CallA("glBufferData", "VBO"),                        \* 95-98
       CallA("glBindVertexArray", "none"),                  \* 112
       CallA("glCreateShader", "vertex"),                   \* 115
       CallA("glShaderSource", "vertex"),                   \* 116
       CallA("glCompileShader", "vertex"),                  \* 117
       CallM("CheckCompileStatus", "vertex", "Vertex shader error"),  \* 120-126
       CallA("glCreateShader", "fragment"),                 \* 129
       CallA("glShaderSource", "fragment"),                 \* 130
       CallA("glCompileShader", "fragment"),                \* 131
       Call("glCreateProgram"),                             \* 134
       CallA("glAttachShader", "vertex"),                   \* 135
       CallA("glAttachShader", "fragment"),                 \* 136
       Call("glLinkProgram"),                               \* 137
       CallA("glDeleteShader", "vertex"),                   \* 140
       CallA("glDeleteShader", "fragment"),                 \* 141
       Call("while"),                                       \* 144
       Call("processInput"),                                \* 146
       Call("glClear"),                                     \* 149-150
       Call("glUseProgram"),                                \* 153
       CallA("glBindVertexArray", "VAO"),                   \* 154
       CallA("glDrawArrays", "0"),                          \* 155
       Call("glfwSwapBuffers"),                             \* 158
       Call("glfwPollEvents"),                              \* 161
       Call("endwhile"),                                    \* 162
       Call("glfwTerminate"),                               \* 164
       Call("return 0") >>                                  \* 165

\* ex01_animatedTriangleColor.cpp, main, lines 32-158.
Ex01Main ==
    << Call("glfwInit"),                                    \* 35-38
       Call("glfwCreateWindow"),                            \* 46-51
       Call("glfwMakeContextCurrent"),                      \* 54
       Call("glfwSetFramebufferSizeCallback"),              \* 57
       Call("gladLoadGLLoader"),                            \* 60-63
       Call("glViewport"),                                  \* 66
       CallA("glGenBuffers", "VBO"),                        \* 76-77
       CallA("glBufferData", "VBO"),                        \* 78-79
       CallA("glGenVertexArrays", "VAO"),                   \* 82-83
       CallA("glBindVertexArray", "VAO"),                   \* 84
       CallA("glBindVertexArray", "none"),                  \* 96
       CallA("glCreateShader", "vertex"),                   \* 100
       CallA("glShaderSource", "vertex"),                   \* 101
       CallA("glCompileShader", "vertex"),                  \* 102
       CallA("glCreateShader", "fragment"),                 \* 105
       CallA("glShaderSource", "fragment"),                 \* 106
       CallA("glCompileShader", "fragment"),                \* 107
       Call("glCreateProgram"),                             \* 110
       CallA("glAttachShader", "vertex"),                   \* 111
       CallA("glAttachShader", "fragment"),                 \* 112
       Call("glLinkProgram"),                               \* 113
       CallM("CheckCompileStatus", "vertex", "Vertex shader error"),  \* 116-122
       CallA("glDeleteShader", "vertex"),                   \* 125
       CallA("glDeleteShader", "fragment"),                 \* 126
       Call("while"),                                       \* 129
       Call("glClear"),                                     \* 130-131
       Call("glUseProgram"),                                \* 133
       CallA("glGetUniformLocation", "ourColor"),           \* 142
       CallM("glUniform", "ourColor", "mix"),               \* 143
       CallA("glBindVertexArray", "VAO"),                   \* 145
       CallA("glDrawArrays", "0"),                          \* 146
       Call("glfwSwapBuffers"),                             \* 149
       Call("glfwPollEvents"),                              \* 152
       Call("endwhile"),                                    \* 153
       Call("glfwTerminate"),                               \* 155
       Call("return 0") >>                                  \* 156

\* ex02_DrawTwoRectangles.cpp, CompileShader, lines 60-75.
CompileShader(stage) ==
    << CallA("glCreateShader", stage),                      \* 62
       CallA("glShaderSource", stage),                      \* 63
       CallA("glCompileShader", stage),                     \* 64
       CallM("CheckCompileStatus", stage, "Shader error") >>  \* 66-73

\* ex02_DrawTwoRectangles.cpp, main, lines 77-214.
Ex02Main ==
    << Call("glfwInit"),                                    \* 80-83
       Call("glfwCreateWindow"),                            \* 91-96
       Call("glfwMakeContextCurrent"),                      \* 99
       Call("glfwSetFramebufferSizeCallback"),              \* 102
       Call("gladLoadGLLoader"),                            \* 105-108
       Call("glViewport"),                                  \* 111
       CallA("glGenVertexArrays", "VAO"),                   \* 137-138
       CallA("glBindVertexArray", "VAO"),                   \* 139
       CallA("glGenBuffers", "VBO"),                        \* 142-143
       CallA("glBufferData", "VBO"),                        \* 144-145
       CallA("glGenBuffers", "EBO"),                        \* 148-149
       CallA("glBufferData", "EBO"),                        \* 150-151
       CallA("glBindVertexArray", "none"),                  \* 163
       Call("ParseShader") >>                               \* 166
    \o CompileShader("vertex")                              \* 168
    \o CompileShader("fragment")                            \* 169
    \o
    << Call("glCreateProgram"),                             \* 172
       CallA("glAttachShader", "vertex"),                   \* 173
       CallA("glAttachShader", "fragment"),                 \* 174
       Call("glLinkProgram"),                               \* 175
       CallM("CheckCompileStatus", "vertex", "Vertex shader error"),  \* 178-184
       CallA("glDeleteShader", "vertex"),                   \* 187
       CallA("glDeleteShader", "fragment"),                 \* 188
       Call("while"),                                       \* 191
       Call("glClear"),                                     \* 192-193
       Call("glUseProgram"),                                \* 195
       CallA("glBindVertexArray", "VAO"),                   \* 196
       CallA("glGetUniformLocation", "uColor"),             \* 198
       CallM("glUniform", "uColor", "red"),                 \* 199
       CallA("glDrawElements", "0"),                        \* 200
       CallM("glUniform", "uColor", "blue"),                \* 201
       CallA("glDrawElements", "6"),                        \* 202
       Call("glfwSwapBuffers"),                             \* 205
       Call("glfwPollEvents"),                              \* 208
       Call("endwhile"),                                    \* 209
       Call("glfwTerminate"),                               \* 211
       Call("return 0") >>                                  \* 212

\* Faulty variant of the constructor: the fragment stage object is never deleted.
ShaderCtor_LeaksFragment ==
    << Call("ReadShaderFiles"),
       CallA("glCreateShader", "vertex"),
       CallA("glShaderSource", "vertex"),
       CallA("glCompileShader", "vertex"),
       CallM("CheckCompileStatus", "vertex", "SHADER COMPILE ERROR [VERTEX]"),
       CallA("glCreateShader", "fragment"),
       CallA("glShaderSource", "fragment"),
       CallA("glCompileShader", "fragment"),
       CallM("CheckCompileStatus", "fragment", "SHADER COMPILE ERROR [FRAGMENT]"),
       Call("glCreateProgram"),
       CallA("glAttachShader", "vertex"),
       CallA("glAttachShader", "fragment"),
       Call("glLinkProgram"),
       CallM("CheckLinkStatus", "", "PROGRAM LINK ERROR"),
       CallA("glDeleteShader", "vertex") >>

\* shader.cpp, Shader::Shader, lines 7-36.
ShaderCtor ==
    << Call("ReadShaderFiles"),                             \* 9-14
       CallA("glCreateShader", "vertex"),                   \* 17
       CallA("glShaderSource", "vertex"),                   \* 18
       CallA("glCompileShader", "vertex"),                  \* 19
       CallM("CheckCompileStatus", "vertex", "SHADER COMPILE ERROR [VERTEX]"),     \* 20
       CallA("glCreateShader", "fragment"),                 \* 22
       CallA("glShaderSource", "fragment"),                 \* 23
       CallA("glCompileShader", "fragment"),                \* 24
       CallM("CheckCompileStatus", "fragment", "SHADER COMPILE ERROR [FRAGMENT]"), \* 25
       Call("glCreateProgram"),                             \* 28
       CallA("glAttachShader", "vertex"),                   \* 29
       CallA("glAttachShader", "fragment"),                 \* 30
       Call("glLinkProgram"),                               \* 31
       CallM("CheckLinkStatus", "", "PROGRAM LINK ERROR"),  \* 32
       CallA("glDeleteShader", "vertex"),                   \* 34
       CallA("glDeleteShader", "fragment") >>               \* 35

\* Faulty variant of the setters: the write uses a location kept from before,
\* without a lookup.
ShaderSet_CachedLocation(name, value) ==
    << CallM("glUniform", name, value) >>

\* shader.cpp, Shader::setVec4 and Shader::setVec3, lines 41-50: a lookup of
\* the location by name, then the write.
ShaderSet(name, value) ==
    << CallA("glGetUniformLocation", name),
       CallM("glUniform", name, value) >>

\* ex03_Shaders/main.cpp, the first main, lines 6-105.  The Shader object is a
\* local of main: its destructor runs when main's scope ends, after line 104.
Ex03Main ==
    << Call("glfwInit"),                                    \* 8-11
       Call("glfwCreateWindow"),                            \* 17-22
       Call("glfwMakeContextCurrent"),                      \* 23
       Call("gladLoadGLLoader"),                            \* 24-27
       Call("glViewport"),                                  \* 28
       CallA("glGenVertexArrays", "VAO"),                   \* 53-54
       CallA("glBindVertexArray", "VAO"),                   \* 55
       CallA("glGenBuffers", "VBO"),                        \* 57-59
       CallA("glGenBuffers", "EBO"),                        \* 61-63
       CallA("glBufferData", "EBO"),                        \* 64
       CallA("glBufferData", "VBO"),                        \* 68
       CallA("glBindVertexArray", "none") >>                \* 80
    \o ShaderCtor                                           \* 82
    \o
    << Call("while"),                                       \* 85
       Call("glClear"),                                     \* 86-87
       Call("glUseProgram"),                                \* 89
       CallA("glBindVertexArray", "VAO") >>                 \* 90
    \o ShaderSet("uColor", "blue")                          \* 92
    \o << CallA("glDrawElements", "0") >>                   \* 93
    \o ShaderSet("uColor", "red")                           \* 95
    \o
    << CallA("glDrawElements", "6"),                        \* 96
       Call("glfwSwapBuffers"),                             \* 98
       Call("glfwPollEvents"),                              \* 99
       Call("endwhile"),                                    \* 100
       Call("glfwTerminate"),                               \* 102
       Call("~Shader"),                                     \* 105 (scope exit)
       Call("return 0") >>                                  \* 105

\* ex03_Shaders/main.cpp, the second main, lines 111-187.
Ex03bMain ==
    << Call("glfwInit"),                                    \* 113-116
       Call("glfwCreateWindow"),                            \* 122-127
       Call("glfwMakeContextCurrent"),                      \* 128
       Call("gladLoadGLLoader"),                            \* 129-132
       Call("glViewport"),                                  \* 133
       CallA("glGenVertexArrays", "VAO"),                   \* 141-142
       CallA("glBindVertexArray", "VAO"),                   \* 143
       CallA("glGenBuffers", "VBO"),                        \* 145-147
       CallA("glBufferData", "VBO"),                        \* 149
       CallA("glBindVertexArray", "none") >>                \* 161
    \o ShaderCtor                                           \* 163
    \o
    << Call("while"),                                       \* 166
       Call("glClear"),                                     \* 167-168
       Call("glUseProgram") >>                              \* 169
    \o ShaderSet("uOffset", "offset")                       \* 174
    \o ShaderSet("uColor", "magenta")                       \* 175
    \o
    << CallA("glBindVertexArray", "VAO"),                   \* 177
       CallA("glDrawArrays", "0"),                          \* 178
       Call("glfwSwapBuffers"),                             \* 180
       Call("glfwPollEvents"),                              \* 181
       Call("endwhile"),                                    \* 182
       Call("glfwTerminate"),                               \* 184
       Call("~Shader"),                                     \* 187 (scope exit)
       Call("return 0") >>                                  \* 187

Progs == {"hello", "ex01", "ex02", "ex03", "ex03b"}

Script(p) ==
    CASE p = "hello" -> HelloMain
      [] p = "ex01"  -> Ex01Main
      [] p = "ex02"  -> Ex02Main
      [] p = "ex03"  -> Ex03Main
      [] p = "ex03b" -> Ex03bMain

\* The statement main is at.
Cur == Script(prog)[pc]
At(o) == ~exit.done /\ pc \in 1..Len(Script(prog)) /\ Cur.op = o

\* The index of the one statement `o` of program p.
IndexOf(p, o) == CHOOSE i \in 1..Len(Script(p)) : Script(p)[i].op = o

-----------------------------------------------------------------------------
(* ParseShader: ex02_DrawTwoRectangles.cpp, lines 19-58 *)

NONE == -1
VERTEX == 0
FRAGMENT == 1

NL == "\n"

\* The lines a file is made of: the two markers as the shader files write them,
\* markers with the words in other orders, a marker token alone, a stage name
\* without the marker token, two content lines, the empty line.
Lines ==
    { <<"#shader", "vertex">>, <<"#shader", "fragment">>,
      <<"vertex", "#shader">>, <<"#shader", "fragment", "vertex">>,
      <<"#shader">>, <<"fragment">>,
      <<"a">>, <<"b">>, <<>> }

RECURSIVE SeqsUpTo(_, _)
SeqsUpTo(S, n) ==
    IF n = 0 THEN { <<>> }
    ELSE LET shorter == SeqsUpTo(S, n - 1)
         IN  shorter \cup { Append(f, l) : f \in shorter, l \in S }

Files == SeqsUpTo(Lines, MaxLines)

\* line.find(word) != std::string::npos
Find(line, word) == \E i \in 1..Len(line) : line[i] = word

\* Faulty variants of the loop body, used to show what the statements about
\* ParseShader depend on.
\* A line is put in front of the buffer instead of behind it.
ParseLine_Prepend(t, bufs, line) ==
    IF Find(line, "#shader")
    THEN [type |-> IF Find(line, "vertex") THEN VERTEX
                   ELSE IF Find(line, "fragment") THEN FRAGMENT
                   ELSE t,
          ss   |-> bufs]
    ELSE [type |-> t,
          ss   |-> IF t # NONE
                   THEN [bufs EXCEPT ![t] = line \o <<NL>> \o bufs[t]]
                   ELSE bufs]

\* The test type != NONE is missing: lines before any marker go to ss[0].
ParseLine_NoNoneTest(t, bufs, line) ==
    IF Find(line, "#shader")
    THEN [type |-> IF Find(line, "vertex") THEN VERTEX
                   ELSE IF Find(line, "fragment") THEN FRAGMENT
                   ELSE t,
          ss   |-> bufs]
    ELSE [type |-> t,
          ss   |-> LET k == IF t = NONE THEN VERTEX ELSE t
                   IN  [bufs EXCEPT ![k] = bufs[k] \o line \o <<NL>>]]

\* Both marker branches select VERTEX.
ParseLine_FragmentAsVertex(t, bufs, line) ==
    IF Find(line, "#shader")
    THEN [type |-> IF Find(line, "vertex") THEN VERTEX
                   ELSE IF Find(line, "fragment") THEN VERTEX
                   ELSE t,
          ss   |-> bufs]
    ELSE [type |-> t,
          ss   |-> IF t # NONE
                   THEN [bufs EXCEPT ![t] = bufs[t] \o line \o <<NL>>]
                   ELSE bufs]

\* A marker empties the buffer of the stage it declares.
ParseLine_ResetOnMarker(t, bufs, line) ==
    IF Find(line, "#shader")
    THEN IF Find(line, "vertex")
         THEN [type |-> VERTEX, ss |-> [bufs EXCEPT ![VERTEX] = <<>>]]
         ELSE IF Find(line, "fragment")
         THEN [type |-> FRAGMENT, ss |-> [bufs EXCEPT ![FRAGMENT] = <<>>]]
         ELSE [type |-> t, ss |-> bufs]
    ELSE [type |-> t,
          ss   |-> IF t # NONE
                   THEN [bufs EXCEPT ![t] = bufs[t] \o line \o <<NL>>]
                   ELSE bufs]

\* The stage name is looked for only behind the marker token.
ParseLine_NameMustFollow(t, bufs, line) ==
    LET after(name) == \E i, j \in 1..Len(line) :
                          i < j /\ line[i] = "#shader" /\ line[j] = name
    IN  IF Find(line, "#shader")
        THEN [type |-> IF after("vertex") THEN VERTEX
                       ELSE IF after("fragment") THEN FRAGMENT
                       ELSE t,
              ss   |-> bufs]
        ELSE [type |-> t,
              ss   |-> IF t # NONE
                       THEN [bufs EXCEPT ![t] = bufs[t] \o line \o <<NL>>]
                       ELSE bufs]

\* A marker token without a stage name switches back to no stage.
ParseLine_BareMarkerResets(t, bufs, line) ==
    IF Find(line, "#shader")
    THEN [type |-> IF Find(line, "vertex") THEN VERTEX
                   ELSE IF Find(line, "fragment") THEN FRAGMENT
                   ELSE NONE,
          ss   |-> bufs]
    ELSE [type |-> t,
          ss   |-> IF t # NONE
                   THEN [bufs EXCEPT ![t] = bufs[t] \o line \o <<NL>>]
                   ELSE bufs]

\* A stage that already has text is not opened again: its later sections are
\* dropped.
ParseLine_LaterSectionDropped(t, bufs, line) ==
    LET open(st) == IF bufs[st] = <<>> THEN st ELSE NONE
    IN  IF Find(line, "#shader")
        THEN [type |-> IF Find(line, "vertex") THEN open(VERTEX)
                       ELSE IF Find(line, "fragment") THEN open(FRAGMENT)
                       ELSE t,
              ss   |-> bufs]
        ELSE [type |-> t,
              ss   |-> IF t # NONE
                       THEN [bufs EXCEPT ![t] = bufs[t] \o line \o <<NL>>]
                       ELSE bufs]

\* The body of the while loop, lines 40-51: the new (type, ss) after `line`.
ParseLine(t, bufs, line) ==
    IF Find(line, "#shader")
    THEN [type |-> IF Find(line, "vertex") THEN VERTEX
                   ELSE IF Find(line, "fragment") THEN FRAGMENT
                   ELSE t,
          ss   |-> bufs]
    ELSE [type |-> t,
          ss   |-> IF t # NONE
                   THEN [bufs EXCEPT ![t] = bufs[t] \o line \o <<NL>>]
                   ELSE bufs]

\* Faulty variant: getline reads lines from a stream that is not open.
GetLineOk_IgnoresOpen == pos < Len(file)

\* std::getline(stream, line) succeeds: the stream is open and a line is left.
GetLineOk == fileOpen /\ pos < Len(file)

\* Faulty variant: type starts as VERTEX instead of NONE.
ParseOpen_StartsInVertex ==
    /\ At("ParseShader")
    /\ ppc = "open"
    /\ cerr' = IF ~fileOpen THEN Append(cerr, "Failed to open shader file") ELSE cerr
    /\ type' = VERTEX
    /\ ss' = [i \in {VERTEX, FRAGMENT} |-> <<>>]
    /\ pos' = 0
    /\ ppc' = "loop"
    /\ UNCHANGED <<fileOpen, file, shaderSource>>
    /\ UNCHANGED mainVars

\* Lines 21-36: open the stream, report a failure to open, initialise the locals.
ParseOpen ==
    /\ At("ParseShader")
    /\ ppc = "open"
    /\ cerr' = IF ~fileOpen THEN Append(cerr, "Failed to open shader file") ELSE cerr
    /\ type' = NONE
    /\ ss' = [i \in {VERTEX, FRAGMENT} |-> <<>>]
    /\ pos' = 0
    /\ ppc' = "loop"
    /\ UNCHANGED <<fileOpen, file, shaderSource>>
    /\ UNCHANGED mainVars

\* Lines 38-52: one iteration of while (std::getline(stream, line)).
ParseGetLine ==
    /\ At("ParseShader")
    /\ ppc = "loop"
    /\ GetLineOk
    /\ LET r == ParseLine(type, ss, file[pos + 1])
       IN  /\ type' = r.type
           /\ ss' = r.ss
    /\ pos' = pos + 1
    /\ UNCHANGED <<fileOpen, file, ppc, shaderSource, cerr>>
    /\ UNCHANGED mainVars

\* Lines 54-57: getline failed (end of file, or a stream that never opened).
ParseReturn ==
    /\ At("ParseShader")
    /\ ppc = "loop"
    /\ ~GetLineOk
    /\ shaderSource' = [VertexSource |-> ss[VERTEX], FragmentSource |-> ss[FRAGMENT]]
    /\ ppc' = "returned"
    /\ pc' = pc + 1
    /\ UNCHANGED <<fileOpen, file, pos, type, ss, cerr>>
    /\ UNCHANGED <<prog, exit, glfw, gl, shaders, program, code, loc, frame, locAge, useCalled>>

-----------------------------------------------------------------------------
(* State of the GL and GLFW objects *)

\* shaderSource before ParseShader has returned: no ShaderProgramSource yet.
NoSource == [VertexSource |-> <<"?">>, FragmentSource |-> <<"?">>]

\* A shader name before glCreateShader has made the object.
NoShader ==
    [created |-> FALSE, src |-> <<>>, status |-> "none", statusRead |-> FALSE,
     logRead |-> FALSE, attached |-> FALSE, deleted |-> FALSE, stale |-> FALSE]

UniformNames == {"uColor", "uOffset", "ourColor"}

NoProgram ==
    [created |-> FALSE, linked |-> "none", statusRead |-> FALSE, logRead |-> FALSE,
     deleted |-> FALSE, uniforms |-> {},
     values |-> [n \in UniformNames |-> "unset"]]

NoGlfw ==
    [inited |-> FALSE, window |-> FALSE, context |-> FALSE, callback |-> FALSE,
     glad |-> FALSE, terminated |-> FALSE, shouldClose |-> FALSE,
     size |-> <<0, 0>>, escape |-> FALSE]

NoGl ==
    [viewport |-> <<0, 0>>, current |-> "none", vao |-> "none",
     objects |-> {}, data |-> {}, fetched |-> {}]

\* HelloWorld_GL.cpp lines 17-35 and ex01 lines 12-30: the global source strings.
GlobalSource(p) ==
    [vertex   |-> <<"gl_Position", "=", "vec4(aPos, 1.0)">>,
     fragment |-> IF p = "ex01" THEN <<"FragColor", "=", "ourColor">>
                  ELSE <<"FragColor", "=", "vec4(1.0, 0.5, 0.2, 1.0)">>]

\* The text of vertex.shader and fragment.shader when they can be read.
FileSource ==
    [vertex   |-> <<"gl_Position", "=", "vec4(aPos + uOffset, 1.0)">>,
     fragment |-> <<"FragColor", "=", "uColor">>]

\* The string a program hands to glShaderSource for a stage: the globals
\* (hello, ex01), the fields of shaderSource (ex02, lines 168-169), or
\* vertCode / fragCode (Shader::Shader, lines 13-14).
SourceText(stage) ==
    IF prog = "ex02"
    THEN IF stage = "vertex" THEN shaderSource.VertexSource
                             ELSE shaderSource.FragmentSource
    ELSE code[stage]

\* The uniforms a linked program may expose: fixed by the global strings, and
\* by the contents of the shader files otherwise.
ActiveUniformChoices(p) ==
    CASE p = "hello" -> { {} }
      [] p = "ex01"  -> { {"ourColor"} }
      [] OTHER       -> SUBSET {"uColor", "uOffset"}

\* glGetUniformLocation's answer for an active uniform.
Location(name) == IF name = "uOffset" THEN 1 ELSE 0

\* The framebuffer sizes a resize event may carry.
Sizes == { <<640, 480>>, <<1024, 768>> }

\* unsigned int indices[] of the two-rectangle programs (ex02 lines 126-133,
\* ex03 main.cpp lines 45-52) and the number of vertices in vertices[].
indices == << 0, 1, 2,  2, 3, 0,  4, 5, 6,  6, 7, 4 >>
VertexCount == 8

\* glDrawElements' arguments: count 6, and a byte offset into the index buffer
\* of 0 or 6 * sizeof(unsigned int).
IndexCount == 6
SizeofUInt == 4
Offset(a) == IF a = "6" THEN 6 * SizeofUInt ELSE 0

\* Faulty variant: the byte offset is taken for an index.
FirstIndex_Bytes(a) == Offset(a)

\* The first index a draw with byte offset Offset(a) reads.
FirstIndex(a) == Offset(a) \div SizeofUInt

\* The positions of the index buffer one draw reads.
IndexRange(a) == FirstIndex(a) .. (FirstIndex(a) + IndexCount - 1)

Advance == pc' = pc + 1

\* A shader call on object st: it is stale when the object was deleted before.
Touch(st, new) == [new EXCEPT !.stale = shaders[st].stale \/ shaders[st].deleted]

-----------------------------------------------------------------------------
(* Initialisation: GLFW, window, context, GLAD, viewport *)

\* if (!glfwInit()) { std::cerr << ...; return -1; }
GlfwInit ==
    /\ At("glfwInit")
    /\ \E ok \in BOOLEAN :
         IF ok
         THEN /\ glfw' = [glfw EXCEPT !.inited = TRUE]
              /\ Advance
              /\ UNCHANGED <<cerr, exit>>
         ELSE /\ cerr' = Append(cerr, "Failed to initialize GLFW")
              /\ exit' = [done |-> TRUE, code |-> -1]
              /\ UNCHANGED <<glfw, pc>>
    /\ UNCHANGED <<parseVars, shaderSource, prog, gl, shaders, program, code, loc, frame, locAge, useCalled>>

\* window = glfwCreateWindow(...); if (!window) { cerr; glfwTerminate(); return -1; }
GlfwCreateWindow ==
    /\ At("glfwCreateWindow")
    /\ \E ok \in BOOLEAN :
         IF ok
         THEN /\ glfw' = [glfw EXCEPT !.window = TRUE, !.size = <<800, 600>>]
              /\ Advance
              /\ UNCHANGED <<cerr, exit>>
         ELSE /\ cerr' = Append(cerr, "Failed to create GLFW window")
              /\ glfw' = [glfw EXCEPT !.terminated = TRUE]
              /\ exit' = [done |-> TRUE, code |-> -1]
              /\ UNCHANGED pc
    /\ UNCHANGED <<parseVars, shaderSource, prog, gl, shaders, program, code, loc, frame, locAge, useCalled>>

\* Faulty variant: the window's context is not made current.
GlfwMakeContextCurrent_Skipped ==
    /\ At("glfwMakeContextCurrent")
    /\ Advance
    /\ UNCHANGED <<parseVars, shaderSource, cerr, prog, exit, glfw, gl, shaders, program, code, loc, frame, locAge, useCalled>>

\* glfwMakeContextCurrent(window)
GlfwMakeContextCurrent ==
    /\ At("glfwMakeContextCurrent")
    /\ glfw' = [glfw EXCEPT !.context = TRUE]
    /\ Advance
    /\ UNCHANGED <<parseVars, shaderSource, cerr, prog, exit, gl, shaders, program, code, loc, frame, locAge, useCalled>>

GlfwSetFramebufferSizeCallback ==
    /\ At("glfwSetFramebufferSizeCallback")
    /\ glfw' = [glfw EXCEPT !.callback = TRUE]
    /\ Advance
    /\ UNCHANGED <<parseVars, shaderSource, cerr, prog, exit, gl, shaders, program, code, loc, frame, locAge, useCalled>>

\* Faulty variant: the GLAD failure is reported but main does not return.
GladLoadGLLoader_Continues ==
    /\ At("gladLoadGLLoader")
    /\ \E ok \in BOOLEAN :
         IF ok
         THEN /\ glfw' = [glfw EXCEPT !.glad = TRUE]
              /\ UNCHANGED cerr
         ELSE /\ cerr' = Append(cerr, "Failed to initialize GLAD")
              /\ UNCHANGED glfw
    /\ Advance
    /\ UNCHANGED <<parseVars, shaderSource, prog, exit, gl, shaders, program, code, loc, frame, locAge, useCalled>>

\* if (!gladLoadGLLoader(...)) { std::cerr << ...; return -1; }
GladLoadGLLoader ==
    /\ At("gladLoadGLLoader")
    /\ \E ok \in BOOLEAN :
         IF ok
         THEN /\ glfw' = [glfw EXCEPT !.glad = TRUE]
              /\ Advance
              /\ UNCHANGED <<cerr, exit>>
         ELSE /\ cerr' = Append(cerr, "Failed to initialize GLAD")
              /\ exit' = [done |-> TRUE, code |-> -1]
              /\ UNCHANGED <<glfw, pc>>
    /\ UNCHANGED <<parseVars, shaderSource, prog, gl, shaders, program, code, loc, frame, locAge, useCalled>>

\* glViewport(0, 0, 800, 600)
GlViewport ==
    /\ At("glViewport")
    /\ gl' = [gl EXCEPT !.viewport = <<800, 600>>]
    /\ Advance
    /\ UNCHANGED <<parseVars, shaderSource, cerr, prog, exit, glfw, shaders, program, code, loc, frame, locAge, useCalled>>

-----------------------------------------------------------------------------
(* Vertex data *)

GlGenVertexArrays ==
    /\ At("glGenVertexArrays")
    /\ gl' = [gl EXCEPT !.objects = @ \cup {Cur.a}]
    /\ Advance
    /\ UNCHANGED <<parseVars, shaderSource, cerr, prog, exit, glfw, shaders, program, code, loc, frame, locAge, useCalled>>

\* glGenBuffers(1, &B); glBindBuffer(target, B)
GlGenBuffers ==
    /\ At("glGenBuffers")
    /\ gl' = [gl EXCEPT !.objects = @ \cup {Cur.a}]
    /\ Advance
    /\ UNCHANGED <<parseVars, shaderSource, cerr, prog, exit, glfw, shaders, program, code, loc, frame, locAge, useCalled>>

GlBindVertexArray ==
    /\ At("glBindVertexArray")
    /\ gl' = [gl EXCEPT !.vao = Cur.a]
    /\ Advance
    /\ UNCHANGED <<parseVars, shaderSource, cerr, prog, exit, glfw, shaders, program, code, loc, frame, locAge, useCalled>>

GlBufferData ==
    /\ At("glBufferData")
    /\ gl' = [gl EXCEPT !.data = @ \cup {Cur.a}]
    /\ Advance
    /\ UNCHANGED <<parseVars, shaderSource, cerr, prog, exit, glfw, shaders, program, code, loc, frame, locAge, useCalled>>

-----------------------------------------------------------------------------
(* Compiling and linking *)

\* shader.cpp lines 9-14: read both files into vertCode and fragCode.  A file
\* that cannot be opened gives an empty string; nothing is reported.
ReadShaderFiles ==
    /\ At("ReadShaderFiles")
    /\ \E vOpen, fOpen \in BOOLEAN :
         code' = [vertex   |-> IF vOpen THEN FileSource.vertex ELSE <<>>,
                  fragment |-> IF fOpen THEN FileSource.fragment ELSE <<>>]
    /\ Advance
    /\ UNCHANGED <<parseVars, shaderSource, cerr, prog, exit, glfw, gl, shaders, program, loc, frame, locAge, useCalled>>

GlCreateShader ==
    /\ At("glCreateShader")
    /\ shaders' = [shaders EXCEPT ![Cur.a] = [NoShader EXCEPT !.created = TRUE]]
    /\ Advance
    /\ UNCHANGED <<parseVars, shaderSource, cerr, prog, exit, glfw, gl, program, code, loc, frame, locAge, useCalled>>

GlShaderSource ==
    /\ At("glShaderSource")
    /\ shaders' = [shaders EXCEPT ![Cur.a] =
                      Touch(Cur.a, [@ EXCEPT !.src = SourceText(Cur.a)])]
    /\ Advance
    /\ UNCHANGED <<parseVars, shaderSource, cerr, prog, exit, glfw, gl, program, code, loc, frame, locAge, useCalled>>

\* glCompileShader: the driver decides; the outcome is the object's
\* GL_COMPILE_STATUS.
GlCompileShader ==
    /\ At("glCompileShader")
    /\ \E ok \in BOOLEAN :
         shaders' = [shaders EXCEPT ![Cur.a] =
                        Touch(Cur.a, [@ EXCEPT !.status = IF ok THEN "ok" ELSE "failed"])]
    /\ Advance
    /\ UNCHANGED <<parseVars, shaderSource, cerr, prog, exit, glfw, gl, program, code, loc, frame, locAge, useCalled>>

\* Faulty variant: a compile failure is reported and ends the process.
CheckCompileStatus_Aborts ==
    /\ At("CheckCompileStatus")
    /\ LET failed == shaders[Cur.a].status = "failed"
       IN  /\ shaders' = [shaders EXCEPT ![Cur.a] =
                             Touch(Cur.a, [@ EXCEPT !.statusRead = TRUE,
                                                    !.logRead = @ \/ failed])]
           /\ cerr' = IF failed THEN Append(cerr, Cur.m) ELSE cerr
           /\ IF failed
              THEN exit' = [done |-> TRUE, code |-> -1] /\ UNCHANGED pc
              ELSE Advance /\ UNCHANGED exit
    /\ UNCHANGED <<parseVars, shaderSource, prog, glfw, gl, program, code, loc, frame, locAge, useCalled>>

\* glGetShaderiv(shader, GL_COMPILE_STATUS, &success);
\* if (!success) { glGetShaderInfoLog(shader, ...); std::cerr << msg << infoLog; }
CheckCompileStatus ==
    /\ At("CheckCompileStatus")
    /\ LET failed == shaders[Cur.a].status = "failed"
       IN  /\ shaders' = [shaders EXCEPT ![Cur.a] =
                             Touch(Cur.a, [@ EXCEPT !.statusRead = TRUE,
                                                    !.logRead = @ \/ failed])]
           /\ cerr' = IF failed THEN Append(cerr, Cur.m) ELSE cerr
    /\ Advance
    /\ UNCHANGED <<parseVars, shaderSource, prog, exit, glfw, gl, program, code, loc, frame, locAge, useCalled>>

GlCreateProgram ==
    /\ At("glCreateProgram")
    /\ program' = [NoProgram EXCEPT !.created = TRUE]
    /\ Advance
    /\ UNCHANGED <<parseVars, shaderSource, cerr, prog, exit, glfw, gl, shaders, code, loc, frame, locAge, useCalled>>

GlAttachShader ==
    /\ At("glAttachShader")
    /\ shaders' = [shaders EXCEPT ![Cur.a] = Touch(Cur.a, [@ EXCEPT !.attached = TRUE])]
    /\ Advance
    /\ UNCHANGED <<parseVars, shaderSource, cerr, prog, exit, glfw, gl, program, code, loc, frame, locAge, useCalled>>

\* glLinkProgram: fails when an attached shader did not compile, and may fail
\* for reasons of its own (the stages do not fit together).
GlLinkProgram ==
    /\ At("glLinkProgram")
    /\ \E ok \in BOOLEAN, u \in ActiveUniformChoices(prog) :
         LET compiled == \A st \in Stages :
                            shaders[st].attached => shaders[st].status = "ok"
             linked == ok /\ compiled
         IN  program' = [program EXCEPT
                            !.linked = IF linked THEN "ok" ELSE "failed",
                            !.uniforms = IF linked THEN u ELSE {}]
    /\ Advance
    /\ UNCHANGED <<parseVars, shaderSource, cerr, prog, exit, glfw, gl, shaders, code, loc, frame, locAge, useCalled>>

\* shader.cpp lines 61-65: glGetProgramiv(ID, GL_LINK_STATUS, &success);
\* if (!success) { glGetProgramInfoLog(...); std::cerr << "PROGRAM LINK ERROR" << log; }
CheckLinkStatus ==
    /\ At("CheckLinkStatus")
    /\ LET failed == program.linked = "failed"
       IN  /\ program' = [program EXCEPT !.statusRead = TRUE,
                                         !.logRead = @ \/ failed]
           /\ cerr' = IF failed THEN Append(cerr, Cur.m) ELSE cerr
    /\ Advance
    /\ UNCHANGED <<parseVars, shaderSource, prog, exit, glfw, gl, shaders, code, loc, frame, locAge, useCalled>>

GlDeleteShader ==
    /\ At("glDeleteShader")
    /\ shaders' = [shaders EXCEPT ![Cur.a] = Touch(Cur.a, [@ EXCEPT !.deleted = TRUE])]
    /\ Advance
    /\ UNCHANGED <<parseVars, shaderSource, cerr, prog, exit, glfw, gl, program, code, loc, frame, locAge, useCalled>>

-----------------------------------------------------------------------------
(* The render loop *)

\* while (!glfwWindowShouldClose(window))
While ==
    /\ At("while")
    /\ pc' = IF glfw.shouldClose THEN IndexOf(prog, "endwhile") + 1 ELSE pc + 1
    /\ frame' = "none"
    /\ locAge' = IF locAge = "none" THEN "none" ELSE "old"
    /\ useCalled' = FALSE
    /\ UNCHANGED <<parseVars, shaderSource, cerr, prog, exit, glfw, gl, shaders, program, code, loc>>

EndWhile ==
    /\ At("endwhile")
    /\ pc' = IndexOf(prog, "while")
    /\ UNCHANGED <<parseVars, shaderSource, cerr, prog, exit, glfw, gl, shaders, program, code, loc, frame, locAge, useCalled>>

\* Faulty variant: the Escape key is not acted upon.
ProcessInput_IgnoresEscape ==
    /\ At("processInput")
    /\ Advance
    /\ UNCHANGED <<parseVars, shaderSource, cerr, prog, exit, glfw, gl, shaders, program, code, loc, frame, locAge, useCalled>>

\* HelloWorld_GL.cpp lines 11-14: glfwGetKey reads the key state the last
\* event poll left; Escape pressed sets the should-close flag.
ProcessInput ==
    /\ At("processInput")
    /\ glfw' = [glfw EXCEPT !.shouldClose = @ \/ glfw.escape]
    /\ Advance
    /\ UNCHANGED <<parseVars, shaderSource, cerr, prog, exit, gl, shaders, program, code, loc, frame, locAge, useCalled>>

GlClear ==
    /\ At("glClear")
    /\ frame' = "cleared"
    /\ Advance
    /\ UNCHANGED <<parseVars, shaderSource, cerr, prog, exit, glfw, gl, shaders, program, code, loc, locAge, useCalled>>

\* Faulty variant: the program is made current whatever its link status.
GlUseProgram_Unchecked ==
    /\ At("glUseProgram")
    /\ gl' = [gl EXCEPT !.current = "program"]
    /\ useCalled' = TRUE
    /\ Advance
    /\ UNCHANGED <<parseVars, shaderSource, cerr, prog, exit, glfw, shaders, program, code, loc, frame, locAge>>

\* glUseProgram: a program that is not linked cannot be made current.
GlUseProgram ==
    /\ At("glUseProgram")
    /\ gl' = [gl EXCEPT !.current = IF program.linked = "ok" /\ ~program.deleted
                                     THEN "program" ELSE @]
    /\ useCalled' = TRUE
    /\ Advance
    /\ UNCHANGED <<parseVars, shaderSource, cerr, prog, exit, glfw, shaders, program, code, loc, frame, locAge>>

\* Faulty variants of the lookup.
\* A name that is not active gets location 0 instead of -1.
GlGetUniformLocation_ZeroWhenAbsent ==
    /\ At("glGetUniformLocation")
    /\ loc' = IF program.linked = "ok" /\ ~program.deleted
              THEN IF Cur.a \in program.uniforms THEN Location(Cur.a) ELSE 0
              ELSE -1
    /\ locAge' = "fresh"
    /\ Advance
    /\ UNCHANGED <<parseVars, shaderSource, cerr, prog, exit, glfw, gl, shaders, program, code, frame, useCalled>>

\* The state of the program object is not looked at.
GlGetUniformLocation_IgnoresLinkStatus ==
    /\ At("glGetUniformLocation")
    /\ loc' = Location(Cur.a)
    /\ locAge' = "fresh"
    /\ Advance
    /\ UNCHANGED <<parseVars, shaderSource, cerr, prog, exit, glfw, gl, shaders, program, code, frame, useCalled>>

\* glGetUniformLocation: -1 unless the program is linked and the name is active.
GlGetUniformLocation ==
    /\ At("glGetUniformLocation")
    /\ loc' = IF program.linked = "ok" /\ ~program.deleted /\ Cur.a \in program.uniforms
              THEN Location(Cur.a) ELSE -1
    /\ locAge' = "fresh"
    /\ Advance
    /\ UNCHANGED <<parseVars, shaderSource, cerr, prog, exit, glfw, gl, shaders, program, code, frame, useCalled>>

\* glUniform*(loc, value): writes the uniform at loc of the program in use;
\* location -1 is ignored.
GlUniform ==
    /\ At("glUniform")
    /\ program' =
         IF loc # -1 /\ gl.current = "program"
         THEN [program EXCEPT !.values =
                  [n \in UniformNames |->
                      IF n \in program.uniforms /\ Location(n) = loc
                      THEN Cur.m ELSE program.values[n]]]
         ELSE program
    /\ Advance
    /\ UNCHANGED <<parseVars, shaderSource, cerr, prog, exit, glfw, gl, shaders, code, loc, frame, locAge, useCalled>>

\* glDrawArrays(GL_TRIANGLES, 0, 3)
GlDrawArrays ==
    /\ At("glDrawArrays")
    /\ frame' = "drawn"
    /\ locAge' = IF locAge = "fresh" THEN "drawn" ELSE locAge
    /\ Advance
    /\ UNCHANGED <<parseVars, shaderSource, cerr, prog, exit, glfw, gl, shaders, program, code, loc, useCalled>>

\* glDrawElements(GL_TRIANGLES, 6, GL_UNSIGNED_INT, offset): reads IndexCount
\* entries of the index buffer from FirstIndex on and fetches the vertices they
\* name.  An entry beyond the uploaded indices has no defined value: any
\* unsigned value may be read there.
GlDrawElements ==
    /\ At("glDrawElements")
    /\ frame' = "drawn"
    /\ locAge' = IF locAge = "fresh" THEN "drawn" ELSE locAge
    /\ LET range == IndexRange(Cur.a)
       IN  \E stray \in IF range \subseteq 0..(Len(indices) - 1)
                        THEN {{}} ELSE {{}, {VertexCount}} :
             gl' = [gl EXCEPT !.fetched =
                       { indices[i + 1] : i \in range \cap 0..(Len(indices) - 1) }
                       \cup stray]
    /\ Advance
    /\ UNCHANGED <<parseVars, shaderSource, cerr, prog, exit, glfw, shaders, program, code, loc, useCalled>>

GlfwSwapBuffers ==
    /\ At("glfwSwapBuffers")
    /\ frame' = "swapped"
    /\ Advance
    /\ UNCHANGED <<parseVars, shaderSource, cerr, prog, exit, glfw, gl, shaders, program, code, loc, locAge, useCalled>>

\* The states of the Escape key an event poll may leave.  The key state is
\* kept only for the program that reads it (processInput, HelloWorld_GL.cpp
\* lines 11-14); the other programs never call glfwGetKey.
KeyStates(p) == IF p = "hello" THEN BOOLEAN ELSE {FALSE}

\* glfwPollEvents: the user may have closed the window and pressed or released
\* Escape; a resize event changes the framebuffer size and runs
\* framebuffer_size_callback (glViewport(0, 0, width, height)) when the
\* callback is registered.
GlfwPollEvents ==
    /\ At("glfwPollEvents")
    /\ \E close \in BOOLEAN, escape \in KeyStates(prog), resize \in {<<>>} \cup Sizes :
         /\ glfw' = [glfw EXCEPT !.shouldClose = @ \/ close,
                                 !.escape = escape,
                                 !.size = IF resize # <<>> THEN resize ELSE @]
         /\ gl' = IF resize # <<>> /\ glfw.callback
                  THEN [gl EXCEPT !.viewport = resize] ELSE gl
    /\ Advance
    /\ UNCHANGED <<parseVars, shaderSource, cerr, prog, exit, shaders, program, code, loc, frame, locAge, useCalled>>

-----------------------------------------------------------------------------
(* Shutdown *)

GlfwTerminate ==
    /\ At("glfwTerminate")
    /\ glfw' = [glfw EXCEPT !.terminated = TRUE]
    /\ Advance
    /\ UNCHANGED <<parseVars, shaderSource, cerr, prog, exit, gl, shaders, program, code, loc, frame, locAge, useCalled>>

\* Faulty variant of the destructor: it does not delete the program.
ShaderDtor_NoDelete ==
    /\ At("~Shader")
    /\ Advance
    /\ UNCHANGED <<parseVars, shaderSource, cerr, prog, exit, glfw, gl, shaders, program, code, loc, frame, locAge, useCalled>>

\* ~Shader() { glDeleteProgram(ID); }  The call is issued through the function
\* pointer GLAD loaded.  Once glfwTerminate has destroyed the context and
\* released the GL library the call is undefined: it is ignored, or the
\* process dies with a fault.
ShaderDtor ==
    /\ At("~Shader")
    /\ program' = [program EXCEPT !.deleted = TRUE]
    /\ \E fault \in BOOLEAN :
         IF fault /\ glfw.terminated
         THEN /\ exit' = [done |-> TRUE, code |-> 139]
              /\ UNCHANGED pc
         ELSE /\ Advance
              /\ UNCHANGED exit
    /\ UNCHANGED <<parseVars, shaderSource, cerr, prog, glfw, gl, shaders, code, loc, frame, locAge, useCalled>>

Return0 ==
    /\ At("return 0")
    /\ exit' = [done |-> TRUE, code |-> 0]
    /\ UNCHANGED <<parseVars, shaderSource, cerr, prog, pc, glfw, gl, shaders, program, code, loc, frame, locAge, useCalled>>

-----------------------------------------------------------------------------
(* Specifications *)

MainStart(p) ==
    /\ prog = p
    /\ pc = 1
    /\ exit = [done |-> FALSE, code |-> 0]
    /\ glfw = NoGlfw
    /\ gl = NoGl
    /\ shaders = [st \in Stages |-> NoShader]
    /\ program = NoProgram
    /\ code = IF p \in {"hello", "ex01"} THEN GlobalSource(p)
              ELSE [st \in Stages |-> <<>>]
    /\ loc = -1
    /\ frame = "none"
    /\ locAge = "none"
    /\ useCalled = FALSE

ParseStart ==
    /\ pos = 0
    /\ type = NONE
    /\ ss = [i \in {VERTEX, FRAGMENT} |-> <<>>]
    /\ ppc = "open"
    /\ shaderSource = NoSource
    /\ cerr = <<>>

\* The examples from the start of main.  Basic.shader (ex02) is any file of up
\* to MaxMainLines lines, readable or not; the other examples read no
\* combined file.
Init ==
    /\ \E p \in Progs : MainStart(p)
    /\ fileOpen \in BOOLEAN
    /\ file \in SeqsUpTo(Lines, MaxMainLines)
    /\ prog # "ex02" => fileOpen /\ file = <<>>
    /\ ParseStart

Next ==
    \/ GlfwInit \/ GlfwCreateWindow \/ GlfwMakeContextCurrent
    \/ GlfwSetFramebufferSizeCallback \/ GladLoadGLLoader \/ GlViewport
    \/ GlGenVertexArrays \/ GlGenBuffers \/ GlBindVertexArray \/ GlBufferData
    \/ ParseOpen \/ ParseGetLine \/ ParseReturn
    \/ ReadShaderFiles \/ GlCreateShader \/ GlShaderSource \/ GlCompileShader
    \/ CheckCompileStatus \/ GlCreateProgram \/ GlAttachShader \/ GlLinkProgram
    \/ CheckLinkStatus \/ GlDeleteShader
    \/ While \/ EndWhile \/ ProcessInput \/ GlClear \/ GlUseProgram
    \/ GlGetUniformLocation \/ GlUniform \/ GlDrawArrays \/ GlDrawElements
    \/ GlfwSwapBuffers \/ GlfwPollEvents
    \/ GlfwTerminate \/ ShaderDtor \/ Return0

Spec == Init /\ [][Next]_vars

\* ParseShader alone, called as ex02's main calls it at line 166, on every
\* file of up to MaxLines lines, readable or not.
InitParse ==
    /\ prog = "ex02"
    /\ pc = IndexOf("ex02", "ParseShader")
    /\ exit = [done |-> FALSE, code |-> 0]
    /\ glfw = [NoGlfw EXCEPT !.inited = TRUE, !.window = TRUE, !.context = TRUE,
                              !.callback = TRUE, !.glad = TRUE,
                              !.size = <<800, 600>>]
    /\ gl = [NoGl EXCEPT !.viewport = <<800, 600>>,
                         !.objects = {"VAO", "VBO", "EBO"}, !.data = {"VBO", "EBO"}]
    /\ shaders = [st \in Stages |-> NoShader]
    /\ program = NoProgram
    /\ code = [st \in Stages |-> <<>>]
    /\ loc = -1
    /\ frame = "none"
    /\ locAge = "none"
    /\ useCalled = FALSE
    /\ fileOpen \in BOOLEAN
    /\ file \in Files
    /\ ParseStart

NextParse == ParseOpen \/ ParseGetLine \/ ParseReturn

SpecParse == InitParse /\ [][NextParse]_vars

\* HelloWorld_GL's main alone.  The program is one thread that runs its next
\* statement whenever it has one, which is what the fairness condition says.
InitHello ==
    /\ MainStart("hello")
    /\ fileOpen = TRUE
    /\ file = <<>>
    /\ ParseStart

NextHello ==
    \/ GlfwInit \/ GlfwCreateWindow \/ GlfwMakeContextCurrent
    \/ GlfwSetFramebufferSizeCallback \/ GladLoadGLLoader \/ GlViewport
    \/ GlGenVertexArrays \/ GlGenBuffers \/ GlBindVertexArray \/ GlBufferData
    \/ GlCreateShader \/ GlShaderSource \/ GlCompileShader \/ CheckCompileStatus
    \/ GlCreateProgram \/ GlAttachShader \/ GlLinkProgram \/ GlDeleteShader
    \/ While \/ EndWhile \/ ProcessInput \/ GlClear \/ GlUseProgram
    \/ GlDrawArrays \/ GlfwSwapBuffers \/ GlfwPollEvents
    \/ GlfwTerminate \/ Return0

SpecHello == InitHello /\ [][NextHello]_vars /\ WF_vars(NextHello)

-----------------------------------------------------------------------------
(* Vocabulary of the statements about ParseShader *)

\* The text of a list of lines, each line followed by a newline.
RECURSIVE JoinLines(_)
JoinLines(ls) ==
    IF ls = <<>> THEN <<>> ELSE Head(ls) \o <<NL>> \o JoinLines(Tail(ls))

HasMarkerToken(line) == Find(line, "#shader")
NamesVertex(line) == Find(line, "vertex")
NamesFragment(line) == Find(line, "fragment")

\* A stage marker: the marker token together with a stage name.
StageMarker(line) == HasMarkerToken(line) /\ (NamesVertex(line) \/ NamesFragment(line))
\* A marker that names one stage and not the other.
VertexMarker(line) == HasMarkerToken(line) /\ NamesVertex(line) /\ ~NamesFragment(line)
FragmentMarker(line) == HasMarkerToken(line) /\ NamesFragment(line) /\ ~NamesVertex(line)

\* The stage name token follows the marker token in the line.
Follows(line, name) ==
    \E i, j \in 1..Len(line) : i < j /\ line[i] = "#shader" /\ line[j] = name

\* The stage a stage-marker line declares.
StageNamed(line) == IF NamesVertex(line) THEN VERTEX ELSE FRAGMENT

\* The stage declared by the last stage marker among the first n lines of f.
LastDeclared(f, n) ==
    LET M == { i \in 1..n : StageMarker(f[i]) }
    IN  IF M = {} THEN NONE
        ELSE StageNamed(f[CHOOSE i \in M : \A j \in M : j <= i])

IsPrefix(s, t) == Len(s) <= Len(t) /\ SubSeq(t, 1, Len(s)) = s

Returned == ppc = "returned"

\* f is: a vertex marker, content lines, a fragment marker at line k, content lines.
TwoSections(f, k) ==
    /\ k \in 2..Len(f)
    /\ VertexMarker(f[1])
    /\ FragmentMarker(f[k])
    /\ \A i \in (1..Len(f)) \ {1, k} : ~HasMarkerToken(f[i])

\* A step of the reading loop has consumed line file[pos'].
LineRead == pos' = pos + 1

-----------------------------------------------------------------------------
(* ParseShader: statements *)

\* C1: for a file made of a vertex-marker line, N content lines, a
\* fragment-marker line and M content lines, ParseShader returns the N lines
\* as VertexSource and the M lines as FragmentSource, in file order, each line
\* followed by a newline.
C1_TwoSectionsSplit ==
    (Returned /\ fileOpen) =>
        \A k \in 1..Len(file) :
            TwoSections(file, k) =>
                /\ shaderSource.VertexSource = JoinLines(SubSeq(file, 2, k - 1))
                /\ shaderSource.FragmentSource = JoinLines(SubSeq(file, k + 1, Len(file)))

C1_Witness ==
    /\ Returned /\ fileOpen
    /\ Len(file) = 4
    /\ TwoSections(file, 4)
    /\ file[2] # file[3]
    /\ shaderSource.VertexSource = file[2] \o <<NL>> \o file[3] \o <<NL>>

\* C2: for a file in which no line is a stage marker, ParseShader returns an
\* empty VertexSource and an empty FragmentSource.
C2_NoMarkersBothEmpty ==
    (Returned /\ \A i \in 1..Len(file) : ~StageMarker(file[i])) =>
        /\ shaderSource.VertexSource = <<>>
        /\ shaderSource.FragmentSource = <<>>

C2_Witness ==
    /\ Returned /\ fileOpen
    /\ Len(file) >= 3
    /\ \A i \in 1..Len(file) : ~StageMarker(file[i])
    /\ \E i \in 1..Len(file) : file[i] = <<"a">>
    /\ \E i \in 1..Len(file) : file[i] = <<"#shader">>
    /\ shaderSource.VertexSource = <<>>

\* C3: a file whose only stage markers are vertex markers gives an empty
\* FragmentSource; a file whose only stage markers are fragment markers gives
\* an empty VertexSource.
C3_OneStageOtherEmpty ==
    Returned =>
        /\ (\A i \in 1..Len(file) : StageMarker(file[i]) => VertexMarker(file[i]))
              => shaderSource.FragmentSource = <<>>
        /\ (\A i \in 1..Len(file) : StageMarker(file[i]) => FragmentMarker(file[i]))
              => shaderSource.VertexSource = <<>>

C3_Witness ==
    /\ Returned /\ fileOpen
    /\ \E i \in 1..Len(file) : FragmentMarker(file[i])
    /\ \A i \in 1..Len(file) : StageMarker(file[i]) => FragmentMarker(file[i])
    /\ shaderSource.FragmentSource # <<>>
    /\ shaderSource.VertexSource = <<>>

\* C4: a line without the marker token that follows a stage marker is appended
\* to the buffer of the most recently declared stage and to no other buffer,
\* and no step ever removes or moves text a buffer already holds; what is
\* returned is what was accumulated.
C4_AppendToCurrentStage ==
    [][ /\ \A i \in {VERTEX, FRAGMENT} : IsPrefix(ss[i], ss'[i])
        /\ (LineRead /\ ~HasMarkerToken(file[pos'])) =>
              LET d == LastDeclared(file, pos)
              IN  d # NONE =>
                    /\ ss'[d] = ss[d] \o file[pos'] \o <<NL>>
                    /\ ss'[1 - d] = ss[1 - d]
        /\ Returned' =>
              /\ shaderSource'.VertexSource = ss[VERTEX]
              /\ shaderSource'.FragmentSource = ss[FRAGMENT] ]_vars

C4_Witness ==
    /\ Returned
    /\ Len(file) = 4
    /\ LastDeclared(file, 1) = VERTEX
    /\ LastDeclared(file, 3) = FRAGMENT
    /\ shaderSource.VertexSource = file[2] \o <<NL>>
    /\ shaderSource.FragmentSource = file[4] \o <<NL>>

\* C5 (as stated): the stage switches on a line exactly when the line holds
\* the marker token followed, later in the line, by a stage name; otherwise
\* the active stage is unchanged.
C5_SwitchOnlyWhenNameFollows ==
    [][ LineRead =>
          LET line == file[pos']
          IN  IF Follows(line, "vertex") \/ Follows(line, "fragment")
              THEN type' \in { s \in {VERTEX, FRAGMENT} :
                                 \/ s = VERTEX /\ Follows(line, "vertex")
                                 \/ s = FRAGMENT /\ Follows(line, "fragment") }
              ELSE type' = type ]_vars

\* C5 (amended): the stage switches on a line exactly when the line holds the
\* marker token and a stage name anywhere in the line, before or after the
\* marker token; "vertex" wins when both names occur; a line without the
\* marker token, or with no stage name, leaves the active stage unchanged.
C5_SwitchWhenNameAnywhere ==
    [][ LineRead =>
          LET line == file[pos']
          IN  type' = IF HasMarkerToken(line) /\ NamesVertex(line) THEN VERTEX
                      ELSE IF HasMarkerToken(line) /\ NamesFragment(line) THEN FRAGMENT
                      ELSE type ]_vars

C5_Witness ==
    /\ ppc = "loop"
    /\ pos = 2
    /\ file[1] = <<"#shader", "fragment">>
    /\ file[2] = <<"vertex", "#shader">>
    /\ type = VERTEX

\* C6: when the file cannot be opened, ParseShader writes a diagnostic to the
\* error stream, keeps running to its return, and returns an empty
\* VertexSource and an empty FragmentSource.
C6_UnopenedFileEmptyResult ==
    ~fileOpen =>
        /\ ppc # "open" => \E i \in 1..Len(cerr) : cerr[i] = "Failed to open shader file"
        /\ ~Returned => ENABLED NextParse
        /\ Returned =>
              /\ shaderSource.VertexSource = <<>>
              /\ shaderSource.FragmentSource = <<>>

C6_Witness ==
    /\ Returned /\ ~fileOpen
    /\ Len(file) >= 2
    /\ VertexMarker(file[1])
    /\ ~HasMarkerToken(file[2])
    /\ cerr = <<"Failed to open shader file">>
    /\ shaderSource.VertexSource = <<>>

-----------------------------------------------------------------------------
(* Compiling and linking: statements *)

\* main is past the compile and link statements (in the render loop or behind it).
BuildDone == pc >= IndexOf(prog, "while")

\* C7: in the two-rectangles example no empty VertexSource or FragmentSource
\* returned by ParseShader is submitted to CompileShader.
C7_NoEmptySourceCompiled ==
    prog = "ex02" =>
        \A st \in Stages : shaders[st].status # "none" => shaders[st].src # <<>>

\* C8: in every example, for each stage whose compilation failed, the compile
\* status was read, the diagnostic log was retrieved and written to the error
\* stream, and the stage object was created and attached for the link step.
C8_CompileFailureReported ==
    BuildDone =>
        \A st \in Stages :
            shaders[st].status = "failed" =>
                /\ shaders[st].created
                /\ shaders[st].statusRead
                /\ shaders[st].logRead
                /\ cerr # <<>>
                /\ shaders[st].attached
                /\ program.linked # "none"

\* C9: in the Shader constructor and in the two-rectangles example, when
\* linking failed the link status was read and the linker's log was retrieved
\* and written to the error stream.
C9_LinkFailureReported ==
    (prog \in {"ex02", "ex03", "ex03b"} /\ BuildDone /\ program.linked = "failed") =>
        /\ program.statusRead
        /\ program.logRead
        /\ cerr # <<>>

\* C10: both stage objects are deleted after the link step, whatever the
\* outcome of compiling and linking, and no call uses a stage object after
\* its deletion.
C10_StagesDeletedAfterLink ==
    /\ BuildDone => \A st \in Stages : shaders[st].deleted
    /\ \A st \in Stages : shaders[st].deleted => program.linked # "none"
    /\ \A st \in Stages : ~shaders[st].stale

C10_Witness ==
    /\ prog = "ex03"
    /\ At("glClear")
    /\ shaders["vertex"].status = "failed"
    /\ shaders["fragment"].status = "ok"
    /\ program.linked = "failed"
    /\ \A st \in Stages : shaders[st].deleted

-----------------------------------------------------------------------------
(* The Shader wrapper: statements *)

\* The examples that use the Shader class.
ShaderProgs == {"ex03", "ex03b"}

\* C11: a Shader uniform setter called with a name that is absent from the
\* linked program does not throw (main goes on to its next statement) and
\* leaves the value of every uniform of the program unchanged.
C11_AbsentNameNoEffect ==
    [][ ( /\ prog \in ShaderProgs
          /\ At("glUniform")
          /\ program.linked = "ok"
          /\ Cur.a \notin program.uniforms ) =>
            /\ program'.values = program.values
            /\ pc' = pc + 1
            /\ ~exit'.done ]_vars

C11_Witness ==
    /\ prog = "ex03b"
    /\ At("glGetUniformLocation")
    /\ Cur.a = "uColor"
    /\ loc = -1
    /\ program.linked = "ok"
    /\ program.uniforms = {"uColor"}
    /\ program.values["uColor"] = "magenta"
    /\ program.values["uOffset"] = "unset"

C13_LifecycleOnceForward ==
    [][ (prog \in ShaderProgs) =>
          ( /\ (program'.linked # program.linked) =>
                  (At("glLinkProgram") /\ program.linked = "none")
            /\ (At("glUseProgram") \/ At("glGetUniformLocation") \/ At("glUniform")) =>
                  (program'.linked = program.linked /\ program'.deleted = program.deleted)
            /\ program.deleted => program'.deleted
            /\ At("~Shader") => (~program.deleted /\ program'.deleted)
            /\ (exit'.done /\ exit'.code = 0) => program'.deleted )
      ]_vars

C13_Witness ==
    /\ prog = "ex03"
    /\ exit.done /\ exit.code = 0
    /\ program.linked = "ok"
    /\ program.deleted
    /\ program.values["uColor"] = "red"

-----------------------------------------------------------------------------
(* Process exit: statements *)

\* The process has left main through one of the return -1 branches.
EarlyExit == exit.done /\ exit.code = -1

\* The process has left main through its last statement.
NormalExit == exit.done /\ exit.code = 0

\* C14: on every early-exit branch of initialisation the GLFW library state
\* that was created (and with it the window and its context) has been
\* released by glfwTerminate before the process exits.
C14_EarlyExitReleases ==
    EarlyExit => (glfw.inited => glfw.terminated)

\* C15: on the normal exit path every generated buffer and vertex array, every
\* created shader stage and the created program has been deleted before the
\* process exits.
C15_NormalExitDeletesAll ==
    NormalExit =>
        /\ gl.objects = {}
        /\ \A st \in Stages : shaders[st].created => shaders[st].deleted
        /\ program.created => program.deleted

\* The process has ended on an initialisation failure: the diagnostic msg is
\* the last thing written to the error stream, the exit status is not 0 and
\* main never came to its render loop.
InitFailed(msg) ==
    /\ exit.done
    /\ exit.code # 0
    /\ cerr # <<>>
    /\ cerr[Len(cerr)] = msg
    /\ ~BuildDone

\* C16: in every example a failing glfwInit, glfwCreateWindow or
\* gladLoadGLLoader writes its diagnostic to the error stream and ends the
\* process with a non-zero status before the render loop; main comes to the
\* render loop only with GLFW initialised, the window created and GLAD loaded.
C16_InitFailureExits ==
    [][ /\ (At("glfwInit") /\ ~glfw'.inited) =>
              InitFailed("Failed to initialize GLFW")'
        /\ (At("glfwCreateWindow") /\ ~glfw'.window) =>
              InitFailed("Failed to create GLFW window")'
        /\ (At("gladLoadGLLoader") /\ ~glfw'.glad) =>
              InitFailed("Failed to initialize GLAD")'
        /\ BuildDone' => (glfw'.inited /\ glfw'.window /\ glfw'.glad)
      ]_vars

C16_Witness ==
    /\ prog = "ex03"
    /\ pc = IndexOf(prog, "gladLoadGLLoader")
    /\ glfw.window /\ ~glfw.glad
    /\ InitFailed("Failed to initialize GLAD")
    /\ exit.code = -1

\* main has left its render loop.
LoopLeft == pc > IndexOf(prog, "endwhile")

\* C17: once initialisation has succeeded, every example leaves its render
\* loop only with the should-close flag set, and the process then ends only
\* with GLFW terminated and with exit status 0.
C17_LoopUntilCloseThenExit0 ==
    glfw.glad =>
        /\ LoopLeft => glfw.shouldClose
        /\ exit.done => (LoopLeft /\ glfw.terminated /\ exit.code = 0)

-----------------------------------------------------------------------------
(* Failures while building the program: statements *)

\* The Shader constructor has read its two files.
FilesRead == prog \in ShaderProgs /\ pc > IndexOf(prog, "ReadShaderFiles")

\* The diagnostics checkCompileErrors writes.
BuildMessages ==
    { "SHADER COMPILE ERROR [VERTEX]", "SHADER COMPILE ERROR [FRAGMENT]",
      "PROGRAM LINK ERROR" }

\* C18: in the Shader constructor, once the files are read, a stage whose file
\* could not be opened (its source is empty) has a file-open diagnostic on the
\* error stream, the empty source is what is compiled for it, and a compile
\* failure of that stage that was checked has its log written.
C18_FileOpenFailureLogged ==
    FilesRead =>
        \A st \in Stages :
            code[st] = <<>> =>
                /\ \E i \in DOMAIN cerr : cerr[i] \notin BuildMessages
                /\ shaders[st].status # "none" => shaders[st].src = <<>>
                /\ (shaders[st].statusRead /\ shaders[st].status = "failed") =>
                      shaders[st].logRead

\* A stage failed to compile or the program failed to link.
BuildFailed ==
    \/ \E st \in Stages : shaders[st].status = "failed"
    \/ program.linked = "failed"

\* The statements between the clear and the swap of one frame.
FrameStatements == { "glUseProgram", "glDrawArrays", "glDrawElements" }

\* C19: after initialisation, and whatever stage compilations or link failed,
\* the process is not ended and has a next statement to run for as long as it
\* has not left the render loop; the loop is left only with the should-close
\* flag set; the loop head enters the body whenever the flag is not set, and
\* glUseProgram and the draw calls go on to the next statement of the frame.
C19_FailureNeverStops ==
    /\ [] ( (glfw.glad /\ ~LoopLeft) => (~exit.done /\ ENABLED Next) )
    /\ [] ( (glfw.glad /\ LoopLeft) => glfw.shouldClose )
    /\ [][ /\ (BuildFailed /\ At("while") /\ ~glfw.shouldClose) =>
                 (pc' = pc + 1 /\ ~exit'.done)
           /\ (BuildFailed /\ Cur.op \in FrameStatements /\ ~exit.done) =>
                 (pc' = pc + 1 /\ ~exit'.done) ]_vars

C19_Witness ==
    /\ prog = "ex02"
    /\ At("glDrawElements") /\ Cur.a = "6"
    /\ frame = "drawn"
    /\ shaders["vertex"].status = "failed"
    /\ shaders["fragment"].status = "failed"
    /\ program.linked = "failed"
    /\ gl.current # "program"

-----------------------------------------------------------------------------
(* The render loop: statements *)

DrawStatements == { "glDrawArrays", "glDrawElements" }

\* C20: in every example each iteration of the render loop runs clear, then
\* the draw calls, then the buffer swap, then the event poll: the clear is the
\* first of them in its iteration, a draw call comes only after the clear of
\* its frame and before the swap, the swap only after a draw, and the poll
\* only after the swap.
C20_ClearDrawSwapPoll ==
    /\ At("glClear") => frame = "none"
    /\ (~exit.done /\ Cur.op \in DrawStatements) => frame \in {"cleared", "drawn"}
    /\ At("glfwSwapBuffers") => frame = "drawn"
    /\ At("glfwPollEvents") => frame = "swapped"
    /\ At("endwhile") => frame = "swapped"

C20_Witness ==
    /\ prog = "ex01"
    /\ At("endwhile")
    /\ frame = "swapped"
    /\ glfw.shouldClose
    /\ gl.viewport = <<1024, 768>>

-----------------------------------------------------------------------------
(* Uniforms, viewport and context: statements *)

\* C21 as stated: every uniform write uses a location that was looked up after
\* the last draw call of its frame, so that no lookup serves two draw calls.
C21_LookupPerDraw ==
    At("glUniform") => locAge = "fresh"

\* C21, amended: no location is kept across frames: every uniform write uses a
\* location that was looked up earlier in the same frame; in the examples
\* other than ex02 the lookup is also later than the last draw call, while
\* ex02 looks the location up once per frame and uses it for both draw calls.
C21_LookupPerFrame ==
    At("glUniform") =>
        /\ locAge \in {"fresh", "drawn"}
        /\ prog # "ex02" => locAge = "fresh"

C21_Witness ==
    /\ prog = "ex02"
    /\ At("glUniform") /\ Cur.m = "blue"
    /\ locAge = "drawn"
    /\ loc = Location("uColor")
    /\ program.values["uColor"] = "red"

\* C22: in every example, once the initial viewport is set, the GL viewport is
\* the framebuffer size of the window: 800 x 600 while no resize event was
\* delivered, and the size of the most recent resize event afterwards.
C22_ViewportFollowsResize ==
    (glfw.glad /\ pc > IndexOf(prog, "glViewport")) => gl.viewport = glfw.size

\* The GL calls made on behalf of a Shader object: by its constructor, by use
\* and the setters, and by its destructor.
ShaderCalls ==
    { ShaderCtor[i].op : i \in 2..Len(ShaderCtor) }
        \cup { "glUseProgram", "glGetUniformLocation", "glUniform", "~Shader" }

\* C23: in the Shader examples every GL call made on behalf of the Shader
\* object, the glDeleteProgram of its destructor included, is made before
\* glfwTerminate is called.
C23_ShaderCallsBeforeTerminate ==
    prog \in ShaderProgs =>
        \A o \in ShaderCalls : At(o) => ~glfw.terminated

\* The statements that call OpenGL functions.
GlCalls ==
    { "glViewport", "glGenVertexArrays", "glGenBuffers", "glBindVertexArray",
      "glBufferData", "glCreateShader", "glShaderSource", "glCompileShader",
      "CheckCompileStatus", "glCreateProgram", "glAttachShader", "glLinkProgram",
      "CheckLinkStatus", "glDeleteShader", "glClear", "glUseProgram",
      "glGetUniformLocation", "glUniform", "glDrawArrays", "glDrawElements",
      "~Shader" }

\* C24: in every example a statement that calls an OpenGL function is reached
\* only with the window's context made current and GLAD loaded; as long as
\* GLAD is not loaded no GL state was touched, and a process that ended with
\* the context current and GLAD not loaded ended at the GLAD test.
C24_NoGlBeforeLoader ==
    /\ \A o \in GlCalls : At(o) => (glfw.context /\ glfw.glad)
    /\ ~glfw.glad =>
          /\ gl = NoGl
          /\ shaders = [st \in Stages |-> NoShader]
          /\ program = NoProgram
    /\ (exit.done /\ glfw.context /\ ~glfw.glad) =>
          pc = IndexOf(prog, "gladLoadGLLoader")

C24_Witness ==
    /\ prog = "hello"
    /\ exit.done
    /\ glfw.context /\ glfw.callback /\ ~glfw.glad
    /\ pc = IndexOf(prog, "gladLoadGLLoader")
    /\ gl = NoGl

\* C25 as stated: every uniform write and every draw call is issued after the
\* glUseProgram call of its frame and with the example's program in use, and
\* every draw call with the example's VAO bound.
C25_WritesWithProgramInUse ==
    /\ At("glUniform") => (useCalled /\ gl.current = "program")
    /\ (~exit.done /\ Cur.op \in DrawStatements) =>
          (useCalled /\ gl.current = "program" /\ gl.vao = "VAO")

\* C25, amended: every uniform write and every draw call is issued after the
\* glUseProgram call of its frame, and every draw call with the example's VAO
\* bound; the example's program is the one in use at these calls exactly when
\* it linked, and no program is in use when the link failed.
C25_WritesAfterUseCall ==
    /\ At("glUniform") =>
          /\ useCalled
          /\ gl.current = (IF program.linked = "ok" THEN "program" ELSE "none")
    /\ (~exit.done /\ Cur.op \in DrawStatements) =>
          /\ useCalled
          /\ gl.current = (IF program.linked = "ok" THEN "program" ELSE "none")
          /\ gl.vao = "VAO"

C25_Witness ==
    /\ prog = "ex01"
    /\ At("glUniform")
    /\ useCalled
    /\ program.linked = "failed"
    /\ gl.current = "none"
    /\ loc = -1

-----------------------------------------------------------------------------
(* ParseShader: lines outside the sections, repeated sections *)

\* The index of the first stage marker of f, Len(f) + 1 when there is none.
FirstMarker(f) ==
    LET M == { i \in 1..Len(f) : StageMarker(f[i]) }
    IN  IF M = {} THEN Len(f) + 1 ELSE CHOOSE i \in M : \A j \in M : i <= j

\* The number of characters the lines from index n on that hold no marker token
\* take in a buffer, each with its newline.
RECURSIVE TextLenFrom(_, _)
TextLenFrom(f, n) ==
    IF n > Len(f) THEN 0
    ELSE (IF HasMarkerToken(f[n]) THEN 0 ELSE Len(f[n]) + 1) + TextLenFrom(f, n + 1)

\* A line with the marker token and no stage name.
BareMarker(line) == HasMarkerToken(line) /\ ~NamesVertex(line) /\ ~NamesFragment(line)

\* The text of the lines among the first n of f that hold no marker token and
\* come after a marker of stage s with no other stage marker in between.
RECURSIVE Sections(_, _, _)
Sections(f, n, s) ==
    IF n = 0 THEN <<>>
    ELSE Sections(f, n - 1, s)
            \o (IF ~HasMarkerToken(f[n]) /\ LastDeclared(f, n) = s
                THEN f[n] \o <<NL>> ELSE <<>>)

\* C26: as long as no stage marker has been read, no stage is active and both
\* buffers are empty; the returned buffers hold exactly as much text as the
\* lines behind the first stage marker that carry no marker token, so that
\* the lines before it appear in neither.
C26_PrefixDiscarded ==
    /\ (ppc = "loop" /\ pos < FirstMarker(file)) =>
          (type = NONE /\ ss[VERTEX] = <<>> /\ ss[FRAGMENT] = <<>>)
    /\ (Returned /\ fileOpen) =>
          Len(shaderSource.VertexSource) + Len(shaderSource.FragmentSource)
              = TextLenFrom(file, FirstMarker(file) + 1)

C26_Witness ==
    /\ Returned /\ fileOpen
    /\ file = << <<"a">>, <<"fragment">>, <<"#shader", "vertex">>, <<"a">> >>
    /\ shaderSource.VertexSource = <<"a", NL>>
    /\ shaderSource.FragmentSource = <<>>

\* C27: a line with the marker token and neither stage name changes neither
\* the active stage nor a buffer, and the line read after it goes where it
\* would have gone without it: to the buffer of the stage that was active
\* before, or nowhere when none was.
C27_BareMarkerNoEffect ==
    [][ /\ (LineRead /\ BareMarker(file[pos'])) =>
              (type' = type /\ ss' = ss)
        /\ (LineRead /\ pos >= 1 /\ BareMarker(file[pos])
              /\ ~HasMarkerToken(file[pos'])) =>
              LET d == LastDeclared(file, pos - 1)
              IN  /\ type' = d
                  /\ ss' = IF d = NONE THEN ss
                           ELSE [ss EXCEPT ![d] = ss[d] \o file[pos'] \o <<NL>>]
      ]_vars

C27_Witness ==
    /\ Returned /\ fileOpen
    /\ file = << <<"#shader", "fragment">>, <<"a">>, <<"#shader">>, <<"b">> >>
    /\ shaderSource.FragmentSource = <<"a", NL, "b", NL>>
    /\ shaderSource.VertexSource = <<>>

\* C28: each returned buffer is the text of all sections of its stage, in file
\* order: every line without the marker token that follows a marker of the
\* stage, whether the stage was declared once or several times, each line
\* followed by a newline; a later section is appended to the earlier ones.
C28_SectionsConcatenated ==
    (Returned /\ fileOpen) =>
        /\ shaderSource.VertexSource = Sections(file, Len(file), VERTEX)
        /\ shaderSource.FragmentSource = Sections(file, Len(file), FRAGMENT)

C28_Witness ==
    /\ Returned /\ fileOpen
    /\ Len(file) = 4
    /\ VertexMarker(file[1]) /\ VertexMarker(file[3])
    /\ file[2] = <<"b">> /\ file[4] = <<"a">>
    /\ shaderSource.VertexSource = <<"b", NL, "a", NL>>

-----------------------------------------------------------------------------
(* Escape in the hello-world triangle *)

\* C29: in HelloWorld_GL, processInput sets the should-close flag when it sees
\* Escape pressed; no step of the program clears the flag; with the flag set
\* the loop test leaves the loop and no new frame is begun, so that only the
\* frame in progress is finished; and from the flag being set the program
\* goes on to terminate GLFW and to exit with status 0.
C29_EscapeEndsLoop ==
    /\ [][ /\ (At("processInput") /\ glfw.escape) => glfw'.shouldClose
           /\ glfw.shouldClose => glfw'.shouldClose
           /\ (At("while") /\ glfw.shouldClose) =>
                 pc' = IndexOf(prog, "glfwTerminate") ]_vars
    /\ [] ( At("processInput") => ~glfw.shouldClose )
    /\ (glfw.glad /\ glfw.shouldClose)
          ~> (exit.done /\ exit.code = 0 /\ glfw.terminated)

C29_Witness ==
    /\ prog = "hello"
    /\ At("glClear")
    /\ frame = "none"
    /\ glfw.escape
    /\ glfw.shouldClose

-----------------------------------------------------------------------------
(* Indexed draws *)

\* The programs that draw two rectangles from one index buffer.
TwoRectangles == {"ex02", "ex03"}

\* C30: in both two-rectangle programs every glDrawElements call is made with
\* the vertex and index data uploaded and reads index positions inside the
\* 12-entry index buffer: positions 0..5 for the first draw call of a frame
\* and 6..11 for the second, two disjoint ranges that cover the buffer; every
\* vertex fetched is below the vertex count 8, the first draw fetching only
\* vertices 0..3 and the second only vertices 4..7.
C30_IndexedDrawsInBounds ==
    [][ (prog \in TwoRectangles /\ At("glDrawElements")) =>
          LET first == Cur.a = "0"
              range == IndexRange(Cur.a)
          IN  /\ {"VBO", "EBO"} \subseteq gl.data
              /\ Len(indices) = 12
              /\ range = (IF first THEN 0..5 ELSE 6..11)
              /\ range \subseteq 0..(Len(indices) - 1)
              /\ IndexRange("0") \cap IndexRange("6") = {}
              /\ IndexRange("0") \cup IndexRange("6") = 0..(Len(indices) - 1)
              /\ gl'.fetched \subseteq 0..(VertexCount - 1)
              /\ gl'.fetched = (IF first THEN 0..3 ELSE 4..7)
      ]_vars

C30_Witness ==
    /\ prog = "ex03"
    /\ At("glfwSwapBuffers")
    /\ frame = "drawn"
    /\ gl.fetched = 4..7
    /\ gl.vao = "VAO"

====
